---- MODULE Spec2Model ----
(***************************************************************************)
(* State-machine model of the React teaching application: every demo view  *)
(* is a component with its own useState/useRef cells; every action is one  *)
(* event handler (or promise/interval callback) together with the          *)
(* re-render and the effects React runs for it before the next event.      *)
(***************************************************************************)
EXTENDS Integers, Sequences, FiniteSets, TLC

VARIABLES
    \* UseEffectDemo: DataFetchingEffect
    fetchMounted,   \* the mount effect of DataFetchingEffect has run
    user,           \* useState(null)
    loading,        \* useState(false)
    userId,         \* useState(1)
    inflight,       \* user ids of the fetch promises not yet settled, oldest first
    \* UseEffectDemo: CleanupEffect / Timer
    showTimer,      \* useState(false) of CleanupEffect
    timerSeconds,   \* useState(0) of Timer (0 while Timer is not mounted)
    timerInterval,  \* the const `interval` of Timer's effect closure (0: none)
    \* UseRefDemo: TimerExample
    teMounted,      \* TimerExample is mounted
    seconds,        \* useState(0)
    isRunning,      \* useState(false)
    intervalRef,    \* useRef(null).current (0: null)
    shownRunning,   \* isRunning as of the last render: what the handlers of
                    \* that render read and the disabled attributes show
    \* host runtime: table of intervals created and not yet cleared
    liveIntervals,  \* set of [id, owner]
    nextIntervalId, \* the id the next setInterval returns
    \* host runtime: Date.now()
    now,
    \* VirtualDOMDemo: KeyDemo
    items,          \* useState([...three items...])
    \* StateDemo
    todos,          \* useState([...two todos...])
    newTodo,        \* useState('')
    \* AdvancedUseStateDemo: CommonPatternsExample
    ptodos,         \* useState([]) (todos)
    pinput,         \* useState('') (input)
    \* StateDemo: counter
    count,          \* useState(0)
    \* AdvancedUseStateDemo: ComplexObjectStateExample
    cuser,          \* useState({name, email, address, preferences}) (user)
    \* UseContextDemo and its sub-views
    ctxState,       \* the useState cells of the views, by "<View>_<cell>"
    lastThemeClicked, \* history: the button of ThemeControls clicked last ("none": none yet)
    \* UseEffectDemo: MountOnlyEffect
    moMounted,      \* the mount effect of MountOnlyEffect has run
    moCount,        \* useState(0) (count)
    mountTime,      \* useState('')
    \* StateDemo: text input and toggle switch
    text,           \* useState('')
    isOn,           \* useState(false)
    stateDemoView,  \* what StateDemo last rendered for the text and the switch
    \* AdvancedUseStateDemo: FunctionalUpdatesExample
    fuCount,        \* useState(0) (count)
    \* VirtualDOMDemo: PerformanceDemo
    updateCount,    \* useState(0)
    lastUpdateTime, \* useState(null)
    \* AdvancedUseStateDemo: StateBatchingExample
    sbCount,        \* useState(0) (count)
    sbFlag,         \* useState(false) (flag)
    sbFrames,       \* the [count, flag] pairs the last step rendered, in order
    \* UseRefDemo: PreviousValueExample
    pvMounted,      \* the first render and its effect have run
    pvCount,        \* useState(0) (count)
    prevCountRef,   \* useRef().current (<<>>: undefined, <<n>>: n)
    pvShown,        \* the Previous and Current values last rendered
    \* UseRefDemo: RefVsStateExample
    stateCount,     \* useState(0)
    refCount,       \* useRef(0).current
    renderCount,    \* useRef(0).current
    rvShown,        \* the State Count and Ref Count last rendered
    \* history
    issued,         \* fetch requests issued so far
    changes,        \* changes of userId so far
    sawFailure,     \* a fetch has failed
    nToggles,       \* activations of the toggle switch so far
    nInc,           \* '+1' actions so far
    nDec,           \* '-1' actions so far
    sawOther,       \* a Reset or '+10' action has happened
    lastOp          \* name of the last handler that ran

vars == <<fetchMounted, user, loading, userId, inflight,
          showTimer, timerSeconds, timerInterval,
          teMounted, seconds, isRunning, intervalRef, shownRunning,
          liveIntervals, nextIntervalId,
          now, items, todos, newTodo, ptodos, pinput,
          count, cuser, ctxState, nInc, nDec, sawOther,
          moMounted, moCount, mountTime, text, isOn, stateDemoView, nToggles,
          fuCount, updateCount, lastUpdateTime, sbCount, sbFlag, sbFrames,
          pvMounted, pvCount, prevCountRef, pvShown,
          stateCount, refCount, renderCount, rvShown,
          issued, changes, sawFailure, lastOp>>

fetchState == <<fetchMounted, user, loading, userId, inflight>>
fetchHistory == <<issued, changes, sawFailure>>
fetchVars == <<fetchState, fetchHistory>>
cleanupVars == <<showTimer, timerSeconds, timerInterval>>
timerExVars == <<teMounted, seconds, isRunning, intervalRef, shownRunning>>
hostVars == <<liveIntervals, nextIntervalId>>
timerVars == <<cleanupVars, timerExVars, hostVars>>
keyVars == <<items>>
stateTodoVars == <<todos, newTodo>>
patternVars == <<ptodos, pinput>>
listVars == <<now, keyVars, stateTodoVars, patternVars>>
counterVars == <<count, nInc, nDec, sawOther>>
objectVars == <<cuser>>
contextVars == <<ctxState, lastThemeClicked>>
otherVars == <<counterVars, objectVars, contextVars>>
mountOnlyVars == <<moMounted, moCount, mountTime>>
stateDemoVars == <<text, isOn, stateDemoView, nToggles>>
updateVars == <<fuCount, updateCount, lastUpdateTime, sbCount, sbFlag, sbFrames>>
previousVars == <<pvMounted, pvCount, prevCountRef, pvShown>>
refVsStateVars == <<stateCount, refCount, renderCount, rvShown>>
refVars == <<previousVars, refVsStateVars>>
moreVars == <<mountOnlyVars, stateDemoVars, updateVars, refVars>>

-----------------------------------------------------------------------------
(* Bounds of the exploration *)

MaxChanges == 2
MaxFuCount == 6
MaxMassClicks == 2
MaxQueue == 4
MaxToggles == 8
MaxInFlight == 2        \* fetches pending at the same time
MaxSeconds == 3         \* ticks counted by a timer display
MaxIntervalIds == 4     \* setInterval calls in one behaviour
MaxItems == 4           \* length of the item list of KeyDemo
MaxShuffled == 4        \* length of an item list that is shuffled
MaxTodos == 3           \* length of a todo list
MaxTodoLen == 1         \* characters typed into a todo input
MaxClockTicks == 1      \* times Date.now() advances in one behaviour
MaxInputLen == 2        \* characters typed into a text field
MaxClicks == 4          \* clicks on one counter button

-----------------------------------------------------------------------------
(* DataFetchingEffect *)

NumUsers == 10          \* the placeholder endpoint serves users 1..10

\* values typed into the User ID field: two served ids and one that is not
UserIdInputs == {1, 2, NumUsers + 1}

NullUser == [kind |-> "null", id |-> 0]
EmptyBody == [kind |-> "empty", id |-> 0]
UserBody(uid) == [kind |-> "user", id |-> uid]

\* body the endpoint answers GET /users/<uid> with: the record, or {} (404)
ServerBody(uid) == IF uid \in 1..NumUsers THEN UserBody(uid) ELSE EmptyBody

\* what the view shows below the input
Displayed == IF loading THEN "Loading..."
             ELSE IF user # NullUser THEN "user-card" ELSE "nothing"

RemoveAt(s, i) == [j \in 1..(Len(s) - 1) |-> IF j < i THEN s[j] ELSE s[j + 1]]

\* body of the effect: setLoading(true) and fetch(users/<uid>)
RunFetchEffect(uid) ==
    /\ loading' = TRUE
    /\ inflight' = Append(inflight, uid)
    /\ issued' = issued + 1

\* first render: the effect runs for the initial userId
FetchMount ==
    /\ ~fetchMounted
    /\ fetchMounted' = TRUE
    /\ RunFetchEffect(userId)
    /\ UNCHANGED <<user, userId>>
    /\ UNCHANGED <<changes, sawFailure>>
    /\ lastOp' = "FetchMount"
    /\ UNCHANGED <<timerVars, listVars, otherVars, moreVars>>

\* onChange of the input: setUserId(value); userId changed, so the effect re-runs
ChangeUserId(v) ==
    /\ fetchMounted
    /\ v # userId
    /\ Len(inflight) < MaxInFlight
    /\ changes < MaxChanges
    /\ userId' = v
    /\ RunFetchEffect(v)
    /\ changes' = changes + 1
    /\ UNCHANGED <<fetchMounted, user, sawFailure>>
    /\ lastOp' = "ChangeUserId"
    /\ UNCHANGED <<timerVars, listVars, otherVars, moreVars>>

\* faulty variant of FetchThen: setLoading(false) is missing
FetchThenNoClear(i) ==
    /\ i \in 1..Len(inflight)
    /\ user' = ServerBody(inflight[i])
    /\ inflight' = RemoveAt(inflight, i)
    /\ UNCHANGED <<fetchMounted, userId, loading>>
    /\ UNCHANGED fetchHistory
    /\ lastOp' = "FetchThen"
    /\ UNCHANGED <<timerVars, listVars, otherVars, moreVars>>

\* .then(data => { setUser(data); setLoading(false) }) of the i-th pending fetch
FetchThen(i) ==
    /\ i \in 1..Len(inflight)
    /\ user' = ServerBody(inflight[i])
    /\ loading' = FALSE
    /\ inflight' = RemoveAt(inflight, i)
    /\ UNCHANGED <<fetchMounted, userId>>
    /\ UNCHANGED fetchHistory
    /\ lastOp' = "FetchThen"
    /\ UNCHANGED <<timerVars, listVars, otherVars, moreVars>>

\* faulty variant of FetchCatch: setLoading(false) is missing
FetchCatchNoClear(i) ==
    /\ i \in 1..Len(inflight)
    /\ inflight' = RemoveAt(inflight, i)
    /\ UNCHANGED <<fetchMounted, user, userId, loading>>
    /\ sawFailure' = TRUE
    /\ UNCHANGED <<issued, changes>>
    /\ lastOp' = "FetchCatch"
    /\ UNCHANGED <<timerVars, listVars, otherVars, moreVars>>

\* faulty variant of FetchCatch: the failed request is issued again
FetchCatchRetry(i) ==
    /\ i \in 1..Len(inflight)
    /\ loading' = TRUE
    /\ inflight' = Append(RemoveAt(inflight, i), inflight[i])
    /\ issued' = issued + 1
    /\ UNCHANGED <<fetchMounted, user, userId>>
    /\ sawFailure' = TRUE
    /\ UNCHANGED changes
    /\ lastOp' = "FetchCatch"
    /\ UNCHANGED <<timerVars, listVars, otherVars, moreVars>>

\* .catch(error => { console.error(error); setLoading(false) }): the fetch was
\* rejected (network failure) or response.json() was (body is not JSON)
FetchCatch(i) ==
    /\ i \in 1..Len(inflight)
    /\ loading' = FALSE
    /\ inflight' = RemoveAt(inflight, i)
    /\ UNCHANGED <<fetchMounted, user, userId>>
    /\ sawFailure' = TRUE
    /\ UNCHANGED <<issued, changes>>
    /\ lastOp' = "FetchCatch"
    /\ UNCHANGED <<timerVars, listVars, otherVars, moreVars>>

FetchSettle == \E i \in 1..MaxInFlight + 1 : FetchThen(i) \/ FetchCatch(i)

-----------------------------------------------------------------------------
(* Host runtime: setInterval / clearInterval *)

NewInterval(owner) == [id |-> nextIntervalId, owner |-> owner]

\* clearInterval(id): no effect when id names no live interval (null, stale)
ClearInterval(ivs, id) == {iv \in ivs : iv.id # id}

LiveOf(owner) == {iv \in liveIntervals : iv.owner = owner}

-----------------------------------------------------------------------------
(* CleanupEffect and its Timer sub-view *)

\* Timer's effect on mount: const interval = setInterval(..., 1000)
TimerSetup ==
    /\ timerInterval' = nextIntervalId
    /\ liveIntervals' = liveIntervals \cup {NewInterval("Timer")}
    /\ nextIntervalId' = nextIntervalId + 1

\* faulty variant of TimerCleanup: the effect returns no clearInterval
TimerCleanupLeak ==
    /\ liveIntervals' = liveIntervals
    /\ UNCHANGED nextIntervalId

\* the function Timer's effect returns: clearInterval(interval)
TimerCleanup ==
    /\ liveIntervals' = ClearInterval(liveIntervals, timerInterval)
    /\ UNCHANGED nextIntervalId

\* button of CleanupEffect, showTimer false: setShowTimer(true) mounts Timer
ShowTimer ==
    /\ ~showTimer
    /\ nextIntervalId <= MaxIntervalIds
    /\ showTimer' = TRUE
    /\ timerSeconds' = 0
    /\ TimerSetup
    /\ lastOp' = "ShowTimer"
    /\ UNCHANGED <<fetchVars, timerExVars, listVars, otherVars, moreVars>>

\* button of CleanupEffect, showTimer true: setShowTimer(false) unmounts Timer,
\* whose state is discarded after its cleanup ran
HideTimer ==
    /\ showTimer
    /\ showTimer' = FALSE
    /\ TimerCleanup
    /\ timerSeconds' = 0
    /\ timerInterval' = 0
    /\ lastOp' = "HideTimer"
    /\ UNCHANGED <<fetchVars, timerExVars, listVars, otherVars, moreVars>>

\* interval callback of Timer: setSeconds(s => s + 1); ignored once unmounted
TimerTick ==
    /\ LiveOf("Timer") # {}
    /\ timerSeconds < MaxSeconds
    /\ timerSeconds' = IF showTimer THEN timerSeconds + 1 ELSE timerSeconds
    /\ lastOp' = "TimerTick"
    /\ UNCHANGED <<showTimer, timerInterval, fetchVars, timerExVars, hostVars, listVars, otherVars, moreVars>>

-----------------------------------------------------------------------------
(* TimerExample of UseRefDemo *)

\* a handler has set isRunning and the view has not rendered it yet
RenderPending == shownRunning # isRunning

\* faulty variant of StopTimerBody: clearInterval is missing
StopTimerBodyNoClear ==
    /\ isRunning' = FALSE
    /\ UNCHANGED <<liveIntervals, intervalRef, nextIntervalId>>

\* stopTimer(): setIsRunning(false); clearInterval(intervalRef.current)
StopTimerBody ==
    /\ isRunning' = FALSE
    /\ liveIntervals' = ClearInterval(liveIntervals, intervalRef)
    /\ UNCHANGED <<intervalRef, nextIntervalId>>

\* startTimer(), isRunning being the value of the render that made the handler
StartTimerBody ==
    /\ ~shownRunning
    /\ nextIntervalId <= MaxIntervalIds
    /\ isRunning' = TRUE
    /\ intervalRef' = nextIntervalId
    /\ liveIntervals' = liveIntervals \cup {NewInterval("TimerExample")}
    /\ nextIntervalId' = nextIntervalId + 1

\* Start button (disabled while isRunning): startTimer, then the re-render
StartTimer ==
    /\ teMounted
    /\ StartTimerBody
    /\ shownRunning' = TRUE
    /\ lastOp' = "StartTimer"
    /\ UNCHANGED <<teMounted, seconds, fetchVars, cleanupVars, listVars, otherVars, moreVars>>

\* a click on Start handled while the render of an earlier event of the same
\* task is still to come (the runtime renders in a microtask after the task's
\* events): startTimer of the last render runs, the button is not yet disabled
StartTimerBeforeRender ==
    /\ teMounted
    /\ StartTimerBody
    /\ UNCHANGED shownRunning
    /\ lastOp' = "StartTimerBeforeRender"
    /\ UNCHANGED <<teMounted, seconds, fetchVars, cleanupVars, listVars, otherVars, moreVars>>

\* the render the runtime owes after StartTimerBeforeRender
RenderTimerExample ==
    /\ teMounted
    /\ RenderPending
    /\ shownRunning' = isRunning
    /\ lastOp' = "RenderTimerExample"
    /\ UNCHANGED <<teMounted, seconds, isRunning, intervalRef, hostVars>>
    /\ UNCHANGED <<fetchVars, cleanupVars, listVars, otherVars, moreVars>>

\* Stop button (disabled unless isRunning): stopTimer, then the re-render
StopTimer ==
    /\ teMounted
    /\ shownRunning
    /\ StopTimerBody
    /\ shownRunning' = FALSE
    /\ lastOp' = "StopTimer"
    /\ UNCHANGED <<teMounted, seconds, fetchVars, cleanupVars, listVars, otherVars, moreVars>>

\* Reset button: stopTimer(); setSeconds(0), then the re-render
ResetTimer ==
    /\ teMounted
    /\ StopTimerBody
    /\ seconds' = 0
    /\ shownRunning' = FALSE
    /\ lastOp' = "ResetTimer"
    /\ UNCHANGED <<teMounted, fetchVars, cleanupVars, listVars, otherVars, moreVars>>

\* interval callback of startTimer: setSeconds(s => s + 1); ignored once
\* unmounted; a timer callback is a task of its own, so no render is pending
TimerExampleTick ==
    /\ LiveOf("TimerExample") # {}
    /\ ~RenderPending
    /\ seconds < MaxSeconds
    /\ seconds' = IF teMounted THEN seconds + 1 ELSE seconds
    /\ lastOp' = "TimerExampleTick"
    /\ UNCHANGED <<teMounted, isRunning, intervalRef, shownRunning, fetchVars, cleanupVars, hostVars, listVars, otherVars, moreVars>>

\* cleanup of the [] effect: if (intervalRef.current) clearInterval(intervalRef.current)
TimerExampleCleanup ==
    /\ liveIntervals' = IF intervalRef # 0
                        THEN ClearInterval(liveIntervals, intervalRef)
                        ELSE liveIntervals
    /\ UNCHANGED nextIntervalId

\* the view is torn down: cleanup runs, state and ref are discarded
UnmountTimerExample ==
    /\ teMounted
    /\ ~RenderPending
    /\ teMounted' = FALSE
    /\ TimerExampleCleanup
    /\ seconds' = 0
    /\ isRunning' = FALSE
    /\ shownRunning' = FALSE
    /\ intervalRef' = 0
    /\ lastOp' = "UnmountTimerExample"
    /\ UNCHANGED <<fetchVars, cleanupVars, listVars, otherVars, moreVars>>

\* the view is created again with its initialisers
MountTimerExample ==
    /\ ~teMounted
    /\ teMounted' = TRUE
    /\ seconds' = 0
    /\ isRunning' = FALSE
    /\ shownRunning' = FALSE
    /\ intervalRef' = 0
    /\ lastOp' = "MountTimerExample"
    /\ UNCHANGED <<fetchVars, cleanupVars, hostVars, listVars, otherVars, moreVars>>

-----------------------------------------------------------------------------
(* Text fields and the clock *)

Chars == {" ", "a"}

\* the strings a text field can hold: all of length <= MaxInputLen over Chars
Inputs == UNION {[1..n -> Chars] : n \in 0..MaxInputLen}

\* the strings tried in the input of a todo list
TodoInputs == UNION {[1..n -> Chars] : n \in 0..MaxTodoLen}

RECURSIVE TrimStart(_)
TrimStart(s) == IF s # <<>> /\ Head(s) = " " THEN TrimStart(Tail(s)) ELSE s

RECURSIVE TrimEnd(_)
TrimEnd(s) == IF s # <<>> /\ s[Len(s)] = " "
              THEN TrimEnd(SubSeq(s, 1, Len(s) - 1)) ELSE s

\* faulty variant of Trim: the input is tested untrimmed
TrimNothing(s) == s

\* String.prototype.trim
Trim(s) == TrimEnd(TrimStart(s))

\* Date.now() of the first event; far above the literal ids 1, 2, 3
ClockStart == 1000

\* time passes between two events
ClockAdvance ==
    /\ now < ClockStart + MaxClockTicks
    /\ now' = now + 1
    /\ lastOp' = "ClockAdvance"
    /\ UNCHANGED <<fetchVars, timerVars, keyVars, stateTodoVars, patternVars, otherVars, moreVars>>

\* list.filter(x => x.id !== id)
RECURSIVE FilterOutId(_, _)
FilterOutId(s, id) ==
    IF s = <<>> THEN <<>>
    ELSE IF Head(s).id # id THEN <<Head(s)>> \o FilterOutId(Tail(s), id)
    ELSE FilterOutId(Tail(s), id)

\* `Item ${n}`
ItemText(n) == <<"Item", n>>

InitialItems == <<[id |-> 1, text |-> ItemText(1), color |-> "#e3f2fd"],
                  [id |-> 2, text |-> ItemText(2), color |-> "#f3e5f5"],
                  [id |-> 3, text |-> ItemText(3), color |-> "#e8f5e9"]>>

InitialTodos == <<[id |-> 1, text |-> <<"Learn React">>, completed |-> TRUE],
                  [id |-> 2, text |-> <<"Master State">>, completed |-> FALSE]>>

Ids(s) == {s[i].id : i \in 1..Len(s)}

\* The three list demos own disjoint state.  Exploration bound: a list demo
\* is operated only while the other two are as they were first rendered.
KeyDemoUntouched == items = InitialItems
StateTodosUntouched == todos = InitialTodos /\ newTodo = <<>>
PatternsUntouched == ptodos = <<>> /\ pinput = <<>>

-----------------------------------------------------------------------------
(* KeyDemo of VirtualDOMDemo *)

\* hues Math.random() * 360 is drawn from
Hues == {0, 120}

\* `hsl(${hue}, 70%, 85%)`
HslColor(h) == <<"hsl", h, 70, 85>>

\* s with e put in front of its k-th element (at the end when k = Len(s) + 1)
InsertAt(s, k, e) == SubSeq(s, 1, k - 1) \o <<e>> \o SubSeq(s, k, Len(s))

\* faulty variant of SortStep: the element is written over the one at its
\* place instead of being inserted in front of it
SortStepOverwrites(sorted, e, shifts) ==
    IF shifts = 0 THEN Append(sorted, e)
    ELSE [sorted EXCEPT ![Len(sorted) + 1 - shifts] = e] \o <<sorted[Len(sorted)]>>

\* one insertion of the sort: e moves left past the last `shifts` elements
\* of the sorted prefix, those the comparator put after it
SortStep(sorted, e, shifts) == InsertAt(sorted, Len(sorted) + 1 - shifts, e)

\* the comparator answers of one sort of n elements, as the number of
\* elements each insertion moves past: () => Math.random() - 0.5 is
\* positive or negative whatever it is given
ComparatorRuns(n) == {r \in [1..n -> 0..n] : \A i \in 1..n : r[i] < i}

\* [...s].sort(comparator): insertion sort of the first n elements of a copy
\* of s, the comparator answering as in run
RECURSIVE SortFirst(_, _, _)
SortFirst(s, n, run) ==
    IF n = 0 THEN <<>>
    ELSE SortStep(SortFirst(s, n - 1, run), s[n], run[n])

\* Shuffle button: shuffleItems
ShuffleItems(run) ==
    /\ StateTodosUntouched /\ PatternsUntouched
    /\ Len(items) <= MaxShuffled
    /\ items' = SortFirst(items, Len(items), run)
    /\ lastOp' = "ShuffleItems"
    /\ UNCHANGED <<now, stateTodoVars, patternVars, fetchVars, timerVars, otherVars, moreVars>>

\* Add Item button: addItem
AddItem(h) ==
    /\ StateTodosUntouched /\ PatternsUntouched
    /\ Len(items) < MaxItems
    /\ items' = Append(items, [id |-> now,
                               text |-> ItemText(Len(items) + 1),
                               color |-> HslColor(h)])
    /\ lastOp' = "AddItem"
    /\ UNCHANGED <<now, stateTodoVars, patternVars, fetchVars, timerVars, otherVars, moreVars>>

\* the "x" button of the item with this id: removeItem(id)
RemoveItem(id) ==
    /\ StateTodosUntouched /\ PatternsUntouched
    /\ id \in Ids(items)
    /\ items' = FilterOutId(items, id)
    /\ lastOp' = "RemoveItem"
    /\ UNCHANGED <<now, stateTodoVars, patternVars, fetchVars, timerVars, otherVars, moreVars>>

-----------------------------------------------------------------------------
(* Todo list of StateDemo *)

\* onChange of the todo input: setNewTodo(e.target.value)
TypeNewTodo(s) ==
    /\ KeyDemoUntouched /\ PatternsUntouched
    /\ s # newTodo
    /\ newTodo' = s
    /\ lastOp' = "TypeNewTodo"
    /\ UNCHANGED <<now, todos, keyVars, patternVars, fetchVars, timerVars, otherVars, moreVars>>

\* Add button / Enter key: addTodo
AddTodo ==
    /\ KeyDemoUntouched /\ PatternsUntouched
    /\ Len(todos) < MaxTodos
    /\ IF Trim(newTodo) = <<>>
       THEN UNCHANGED <<todos, newTodo>>
       ELSE /\ todos' = Append(todos, [id |-> now, text |-> newTodo, completed |-> FALSE])
            /\ newTodo' = <<>>
    /\ lastOp' = "AddTodo"
    /\ UNCHANGED <<now, keyVars, patternVars, fetchVars, timerVars, otherVars, moreVars>>

\* todos.map(todo => todo.id === id ? { ...todo, completed: !todo.completed } : todo)
ToggleCompleted(s, id) ==
    [k \in 1..Len(s) |->
        IF s[k].id = id THEN [s[k] EXCEPT !.completed = ~s[k].completed] ELSE s[k]]

\* the checkbox of the todo with this id: toggleTodo(id)
ToggleTodo(id) ==
    /\ KeyDemoUntouched /\ PatternsUntouched
    /\ id \in Ids(todos)
    /\ todos' = ToggleCompleted(todos, id)
    /\ lastOp' = "ToggleTodo"
    /\ UNCHANGED <<now, newTodo, keyVars, patternVars, fetchVars, timerVars, otherVars, moreVars>>

\* the "x" button of the todo with this id: deleteTodo(id)
DeleteTodo(id) ==
    /\ KeyDemoUntouched /\ PatternsUntouched
    /\ id \in Ids(todos)
    /\ todos' = FilterOutId(todos, id)
    /\ lastOp' = "DeleteTodo"
    /\ UNCHANGED <<now, newTodo, keyVars, patternVars, fetchVars, timerVars, otherVars, moreVars>>

-----------------------------------------------------------------------------
(* CommonPatternsExample of AdvancedUseStateDemo *)

\* onChange of the input: setInput(e.target.value)
PatternsType(s) ==
    /\ KeyDemoUntouched /\ StateTodosUntouched
    /\ s # pinput
    /\ pinput' = s
    /\ lastOp' = "PatternsType"
    /\ UNCHANGED <<now, ptodos, keyVars, stateTodoVars, fetchVars, timerVars, otherVars, moreVars>>

\* Add button / Enter key: addTodo
PatternsAddTodo ==
    /\ KeyDemoUntouched /\ StateTodosUntouched
    /\ Len(ptodos) < MaxTodos
    /\ IF Trim(pinput) # <<>>
       THEN /\ ptodos' = Append(ptodos, [id |-> now, text |-> pinput, done |-> FALSE])
            /\ pinput' = <<>>
       ELSE UNCHANGED <<ptodos, pinput>>
    /\ lastOp' = "PatternsAddTodo"
    /\ UNCHANGED <<now, keyVars, stateTodoVars, fetchVars, timerVars, otherVars, moreVars>>

\* todos.map(todo => todo.id === id ? { ...todo, done: !todo.done } : todo)
ToggleDone(s, id) ==
    [k \in 1..Len(s) |->
        IF s[k].id = id THEN [s[k] EXCEPT !.done = ~s[k].done] ELSE s[k]]

\* the checkbox of the todo with this id: toggleTodo(id)
PatternsToggleTodo(id) ==
    /\ KeyDemoUntouched /\ StateTodosUntouched
    /\ id \in Ids(ptodos)
    /\ ptodos' = ToggleDone(ptodos, id)
    /\ lastOp' = "PatternsToggleTodo"
    /\ UNCHANGED <<now, pinput, keyVars, stateTodoVars, fetchVars, timerVars, otherVars, moreVars>>

\* the "x" button of the todo with this id: deleteTodo(id)
PatternsDeleteTodo(id) ==
    /\ KeyDemoUntouched /\ StateTodosUntouched
    /\ id \in Ids(ptodos)
    /\ ptodos' = FilterOutId(ptodos, id)
    /\ lastOp' = "PatternsDeleteTodo"
    /\ UNCHANGED <<now, pinput, keyVars, stateTodoVars, fetchVars, timerVars, otherVars, moreVars>>

-----------------------------------------------------------------------------
(* Counter of StateDemo *)

\* '+1' button: incrementCount, setCount(count + 1)
IncrementCount ==
    /\ nInc < MaxClicks
    /\ count' = count + 1
    /\ nInc' = nInc + 1
    /\ lastOp' = "IncrementCount"
    /\ UNCHANGED <<nDec, sawOther, fetchVars, timerVars, listVars, objectVars, contextVars, moreVars>>

\* faulty variant of DecrementCount: the count is kept from going below 0
DecrementCountFloor ==
    /\ nDec < MaxClicks
    /\ count' = IF count > 0 THEN count - 1 ELSE 0
    /\ nDec' = nDec + 1
    /\ lastOp' = "DecrementCount"
    /\ UNCHANGED <<nInc, sawOther, fetchVars, timerVars, listVars, objectVars, contextVars, moreVars>>

\* '-1' button: decrementCount, setCount(count - 1)
DecrementCount ==
    /\ nDec < MaxClicks
    /\ count' = count - 1
    /\ nDec' = nDec + 1
    /\ lastOp' = "DecrementCount"
    /\ UNCHANGED <<nInc, sawOther, fetchVars, timerVars, listVars, objectVars, contextVars, moreVars>>

\* Reset button: resetCount, setCount(0)
ResetCount ==
    /\ count' = 0
    /\ sawOther' = TRUE
    /\ lastOp' = "ResetCount"
    /\ UNCHANGED <<nInc, nDec, fetchVars, timerVars, listVars, objectVars, contextVars, moreVars>>

\* '+10' button: incrementByTen, setCount(prevCount => prevCount + 10)
IncrementByTen ==
    /\ count < 10 * MaxClicks
    /\ count' = count + 10
    /\ sawOther' = TRUE
    /\ lastOp' = "IncrementByTen"
    /\ UNCHANGED <<nInc, nDec, fetchVars, timerVars, listVars, objectVars, contextVars, moreVars>>

-----------------------------------------------------------------------------
(* ComplexObjectStateExample of AdvancedUseStateDemo *)

InitialUser ==
    [name |-> <<"John Doe">>,
     email |-> <<"john@example.com">>,
     address |-> [street |-> <<"123 Main St">>,
                  city |-> <<"New York">>,
                  zipCode |-> <<"10001">>],
     preferences |-> [theme |-> "light", notifications |-> TRUE]]

\* { ...obj, [field]: value }
Spread(obj, field, value) == [obj EXCEPT ![field] = value]

\* onChange of the Name input: updateName
UpdateName(v) ==
    /\ v # cuser.name
    /\ cuser' = Spread(cuser, "name", v)
    /\ lastOp' = "UpdateName"
    /\ UNCHANGED <<fetchVars, timerVars, listVars, counterVars, contextVars, moreVars>>

\* faulty variant of UpdateCity: address is replaced, not spread
UpdateCityShallow(v) ==
    /\ v # cuser.address.city
    /\ cuser' = Spread(cuser, "address", [street |-> <<>>, city |-> v, zipCode |-> <<>>])
    /\ lastOp' = "UpdateCity"
    /\ UNCHANGED <<fetchVars, timerVars, listVars, counterVars, contextVars, moreVars>>

\* onChange of the City input: updateCity
UpdateCity(v) ==
    /\ v # cuser.address.city
    /\ cuser' = Spread(cuser, "address", Spread(cuser.address, "city", v))
    /\ lastOp' = "UpdateCity"
    /\ UNCHANGED <<fetchVars, timerVars, listVars, counterVars, contextVars, moreVars>>

\* Notifications button: toggleNotifications
ToggleNotifications ==
    /\ cuser' = Spread(cuser, "preferences",
                       Spread(cuser.preferences, "notifications",
                              ~cuser.preferences.notifications))
    /\ lastOp' = "ToggleNotifications"
    /\ UNCHANGED <<fetchVars, timerVars, listVars, counterVars, contextVars, moreVars>>

-----------------------------------------------------------------------------
(* UseContextDemo: the views, their state cells and the context providers *)

InitialCtxState ==
    [UseContextDemo_theme |-> "light",
     UseContextDemo_user |-> [name |-> <<"John Doe">>, role |-> "Developer"],
     UseContextDemo_settings |-> [notifications |-> TRUE, language |-> "en"],
     PropDrillingProblem_count |-> 0,
     ThemeExample_theme |-> "light",
     MultipleContextsExample_user |-> [name |-> <<"Alice">>, role |-> "Admin"],
     MultipleContextsExample_settings |-> [notifications |-> TRUE]]

Cells == DOMAIN InitialCtxState

\* the cells each view declares with useState
CellsOf(view) ==
    CASE view = "UseContextDemo" ->
             {"UseContextDemo_theme", "UseContextDemo_user", "UseContextDemo_settings"}
      [] view = "PropDrillingProblem" -> {"PropDrillingProblem_count"}
      [] view = "ThemeExample" -> {"ThemeExample_theme"}
      [] view = "MultipleContextsExample" ->
             {"MultipleContextsExample_user", "MultipleContextsExample_settings"}

\* the element each element is rendered in ("Providers*": the Provider elements)
ParentOf(node) ==
    CASE node = "ChildWithContext" -> "ParentWithContext"
      [] node = "ParentWithContext" -> "GrandparentWithContext"
      [] node = "GrandparentWithContext" -> "ContextSolution"
      [] node = "ContextSolution" -> "ProvidersOfUseContextDemo"
      [] node = "ProvidersOfUseContextDemo" -> "UseContextDemo"
      [] node = "ThemeControls" -> "ProviderOfThemeExample"
      [] node = "ThemedContent" -> "ProviderOfThemeExample"
      [] node = "ProviderOfThemeExample" -> "ThemeExample"
      [] node = "ThemeExample" -> "UseContextDemo"
      [] node = "MultiContextConsumer" -> "ProvidersOfMultipleContextsExample"
      [] node = "ProvidersOfMultipleContextsExample" -> "MultipleContextsExample"
      [] node = "MultipleContextsExample" -> "UseContextDemo"
      [] node = "UseContextDemo" -> "root"

\* faulty variant of Provided: every Provider passes the cells of UseContextDemo
ProvidedShared(node, context) ==
    CASE node = "ProvidersOfUseContextDemo" /\ context = "ThemeContext" -> "UseContextDemo_theme"
      [] node = "ProvidersOfUseContextDemo" /\ context = "UserContext" -> "UseContextDemo_user"
      [] node = "ProvidersOfUseContextDemo" /\ context = "SettingsContext" -> "UseContextDemo_settings"
      [] node = "ProviderOfThemeExample" /\ context = "ThemeContext" -> "UseContextDemo_theme"
      [] node = "ProvidersOfMultipleContextsExample" /\ context = "UserContext" -> "UseContextDemo_user"
      [] node = "ProvidersOfMultipleContextsExample" /\ context = "SettingsContext" -> "UseContextDemo_settings"
      [] OTHER -> "none"

\* the cell whose value and setter a Provider element passes as `value`
Provided(node, context) ==
    CASE node = "ProvidersOfUseContextDemo" /\ context = "ThemeContext" -> "UseContextDemo_theme"
      [] node = "ProvidersOfUseContextDemo" /\ context = "UserContext" -> "UseContextDemo_user"
      [] node = "ProvidersOfUseContextDemo" /\ context = "SettingsContext" -> "UseContextDemo_settings"
      [] node = "ProviderOfThemeExample" /\ context = "ThemeContext" -> "ThemeExample_theme"
      [] node = "ProvidersOfMultipleContextsExample" /\ context = "UserContext" -> "MultipleContextsExample_user"
      [] node = "ProvidersOfMultipleContextsExample" /\ context = "SettingsContext" -> "MultipleContextsExample_settings"
      [] OTHER -> "none"

\* useContext(context) called in `node`: the value of the nearest Provider above
RECURSIVE UseContext(_, _)
UseContext(node, context) ==
    IF node = "root" THEN "none"
    ELSE IF Provided(node, context) # "none" THEN Provided(node, context)
    ELSE UseContext(ParentOf(node), context)

\* the setter of a cell
SetState(cell, value) == ctxState' = [ctxState EXCEPT ![cell] = value]

Themes == {"light", "dark", "blue"}

\* faulty variant of SetTheme: the buttons call the setter of the theme cell
\* of UseContextDemo
SetThemeOfDemo(t) ==
    /\ SetState("UseContextDemo_theme", t)
    /\ lastThemeClicked' = t
    /\ lastOp' = "SetTheme"
    /\ UNCHANGED <<fetchVars, timerVars, listVars, counterVars, objectVars, moreVars>>

\* the Light / Dark / Blue buttons of ThemeControls: setTheme(t)
SetTheme(t) ==
    /\ UseContext("ThemeControls", "ThemeContext") # "none"
    /\ SetState(UseContext("ThemeControls", "ThemeContext"), t)
    /\ lastThemeClicked' = t
    /\ lastOp' = "SetTheme"
    /\ UNCHANGED <<fetchVars, timerVars, listVars, counterVars, objectVars, moreVars>>

\* onChange of the name input of MultiContextConsumer: setUser({ ...user, name })
ChangeContextUserName(v) ==
    LET cell == UseContext("MultiContextConsumer", "UserContext") IN
    /\ cell # "none"
    /\ v # ctxState[cell].name
    /\ SetState(cell, Spread(ctxState[cell], "name", v))
    /\ lastOp' = "ChangeContextUserName"
    /\ UNCHANGED lastThemeClicked
    /\ UNCHANGED <<fetchVars, timerVars, listVars, counterVars, objectVars, moreVars>>

\* onChange of the checkbox of MultiContextConsumer:
\* setSettings({ ...settings, notifications: e.target.checked })
ChangeContextNotifications ==
    LET cell == UseContext("MultiContextConsumer", "SettingsContext") IN
    /\ cell # "none"
    /\ SetState(cell, Spread(ctxState[cell], "notifications",
                             ~ctxState[cell].notifications))
    /\ lastOp' = "ChangeContextNotifications"
    /\ UNCHANGED lastThemeClicked
    /\ UNCHANGED <<fetchVars, timerVars, listVars, counterVars, objectVars, moreVars>>

\* Increment button of ChildWithProps: setCount(count + 1), both passed down
\* as props from PropDrillingProblem
PropDrillingIncrement ==
    /\ ctxState["PropDrillingProblem_count"] < MaxClicks
    /\ SetState("PropDrillingProblem_count", ctxState["PropDrillingProblem_count"] + 1)
    /\ lastOp' = "PropDrillingIncrement"
    /\ UNCHANGED lastThemeClicked
    /\ UNCHANGED <<fetchVars, timerVars, listVars, counterVars, objectVars, moreVars>>

\* what ThemeControls renders: Current theme: {theme}
ThemeControlsShows == ctxState[UseContext("ThemeControls", "ThemeContext")]

\* what ThemedContent renders: Current theme from context: {theme}
ThemedContentShows == ctxState[UseContext("ThemedContent", "ThemeContext")]

\* what ChildWithContext renders: Theme: {theme}, User: {user.name}
ChildWithContextShows ==
    [theme |-> ctxState[UseContext("ChildWithContext", "ThemeContext")],
     user |-> ctxState[UseContext("ChildWithContext", "UserContext")].name]

-----------------------------------------------------------------------------
(* Text input and toggle switch of StateDemo *)

\* faulty variant of CharacterCount: counts the trimmed text, as the word
\* count next to it does
CharacterCountTrimmed(t) == Len(Trim(t))

\* Character count: {text.length}
CharacterCount(t) == Len(t)

\* The switch is: {isOn ? 'ON' : 'OFF'}
SwitchLabel(on) == IF on THEN "ON" ELSE "OFF"

\* what StateDemo renders for a text and a switch state
RenderStateDemo(t, on) == [charCount |-> CharacterCount(t), switch |-> SwitchLabel(on)]

\* onChange of the text input: handleTextChange, setText(e.target.value)
HandleTextChange(v) ==
    /\ v # text
    /\ text' = v
    /\ stateDemoView' = RenderStateDemo(v, isOn)
    /\ UNCHANGED <<isOn, nToggles>>
    /\ lastOp' = "HandleTextChange"
    /\ UNCHANGED <<fetchVars, timerVars, listVars, otherVars, mountOnlyVars, updateVars, refVars>>

\* faulty variant of ToggleSwitch: setIsOn(true)
ToggleSwitchOn ==
    /\ nToggles < MaxToggles
    /\ isOn' = TRUE
    /\ stateDemoView' = RenderStateDemo(text, TRUE)
    /\ nToggles' = nToggles + 1
    /\ UNCHANGED text
    /\ lastOp' = "ToggleSwitch"
    /\ UNCHANGED <<fetchVars, timerVars, listVars, otherVars, mountOnlyVars, updateVars, refVars>>

\* onClick of the switch: toggleSwitch, setIsOn(!isOn)
ToggleSwitch ==
    /\ nToggles < MaxToggles
    /\ isOn' = ~isOn
    /\ stateDemoView' = RenderStateDemo(text, ~isOn)
    /\ nToggles' = nToggles + 1
    /\ UNCHANGED text
    /\ lastOp' = "ToggleSwitch"
    /\ UNCHANGED <<fetchVars, timerVars, listVars, otherVars, mountOnlyVars, updateVars, refVars>>

-----------------------------------------------------------------------------
(* The useState update queue, as the runtime processes it at the next render *)

\* setX(v)
Value(v) == [kind |-> "value", arg |-> v]

\* setX(prev => prev + n)
Updater(n) == [kind |-> "add", arg |-> n]

\* setX(prev => !prev)
Negate == [kind |-> "not", arg |-> 0]

\* the same call made k times in a row
Repeat(u, k) == [i \in 1..k |-> u]

\* one queued update applied to the value the updates before it produced
ApplyUpdate(prev, u) ==
    CASE u.kind = "value" -> u.arg
      [] u.kind = "add" -> prev + u.arg
      [] u.kind = "not" -> ~prev

\* faulty variant of ApplyUpdates: every queued update is applied to the value
\* of the render in which the handler was created, and the last one wins
ApplyUpdatesStale(base, queue) ==
    IF queue = <<>> THEN base ELSE ApplyUpdate(base, queue[Len(queue)])

\* the updates lo..hi of a queue applied in call order, each to the result of
\* the one before it; the range is halved and the result of the first half is
\* computed (the comparison) before the second half is entered, which keeps
\* the evaluation of a long queue shallow
RECURSIVE ApplyRange(_, _, _, _)
ApplyRange(base, queue, lo, hi) ==
    IF lo > hi THEN base
    ELSE IF lo = hi THEN ApplyUpdate(base, queue[lo])
    ELSE LET mid == (lo + hi) \div 2
             half == ApplyRange(base, queue, lo, mid)
         IN  IF half = half THEN ApplyRange(half, queue, mid + 1, hi) ELSE base

\* the queue of one state cell, processed at the next render
ApplyUpdates(base, queue) == ApplyRange(base, queue, 1, Len(queue))

-----------------------------------------------------------------------------
(* FunctionalUpdatesExample of AdvancedUseStateDemo *)

\* faulty variant of IncrementBad: the three calls pass an updater function
IncrementBadFunctional ==
    /\ fuCount + 3 <= MaxFuCount
    /\ fuCount' = ApplyUpdates(fuCount, <<Updater(1), Updater(1), Updater(1)>>)
    /\ lastOp' = "IncrementBad"
    /\ UNCHANGED <<updateCount, lastUpdateTime, sbCount, sbFlag, sbFrames>>
    /\ UNCHANGED <<fetchVars, timerVars, listVars, otherVars, mountOnlyVars, stateDemoVars, refVars>>

\* incrementBad: setCount(count + 1) three times, count being the value of
\* the render the handler closes over
IncrementBad ==
    /\ fuCount + 3 <= MaxFuCount
    /\ fuCount' = ApplyUpdates(fuCount, <<Value(fuCount + 1), Value(fuCount + 1), Value(fuCount + 1)>>)
    /\ lastOp' = "IncrementBad"
    /\ UNCHANGED <<updateCount, lastUpdateTime, sbCount, sbFlag, sbFrames>>
    /\ UNCHANGED <<fetchVars, timerVars, listVars, otherVars, mountOnlyVars, stateDemoVars, refVars>>

\* incrementGood: setCount(prev => prev + 1) three times
IncrementGood ==
    /\ fuCount + 3 <= MaxFuCount
    /\ fuCount' = ApplyUpdates(fuCount, <<Updater(1), Updater(1), Updater(1)>>)
    /\ lastOp' = "IncrementGood"
    /\ UNCHANGED <<updateCount, lastUpdateTime, sbCount, sbFlag, sbFrames>>
    /\ UNCHANGED <<fetchVars, timerVars, listVars, otherVars, mountOnlyVars, stateDemoVars, refVars>>

\* button 'Reset': setCount(0)
FunctionalReset ==
    /\ fuCount' = ApplyUpdates(fuCount, <<Value(0)>>)
    /\ lastOp' = "FunctionalReset"
    /\ UNCHANGED <<updateCount, lastUpdateTime, sbCount, sbFlag, sbFrames>>
    /\ UNCHANGED <<fetchVars, timerVars, listVars, otherVars, mountOnlyVars, stateDemoVars, refVars>>

-----------------------------------------------------------------------------
(* PerformanceDemo of VirtualDOMDemo *)

\* the loop bound of simulateMassUpdate
MassUpdates == 100

\* (endTime - startTime).toFixed(2) of two performance.now() readings
Durations == {"0.00", "0.10"}

\* simulateUpdate: setUpdateCount(prev => prev + 1), setLastUpdateTime(...)
SimulateUpdate(t) ==
    /\ updateCount < MassUpdates * MaxMassClicks
    /\ updateCount' = ApplyUpdates(updateCount, <<Updater(1)>>)
    /\ lastUpdateTime' = ApplyUpdates(lastUpdateTime, <<Value(t)>>)
    /\ lastOp' = "SimulateUpdate"
    /\ UNCHANGED <<fuCount, sbCount, sbFlag, sbFrames>>
    /\ UNCHANGED <<fetchVars, timerVars, listVars, otherVars, mountOnlyVars, stateDemoVars, refVars>>

\* simulateMassUpdate: for (i = 0; i < 100; i++) setUpdateCount(prev => prev + 1),
\* then setLastUpdateTime(...)
SimulateMassUpdate(t) ==
    /\ updateCount < MassUpdates * MaxMassClicks
    /\ updateCount' = ApplyUpdates(updateCount, Repeat(Updater(1), MassUpdates))
    /\ lastUpdateTime' = ApplyUpdates(lastUpdateTime, <<Value(t)>>)
    /\ lastOp' = "SimulateMassUpdate"
    /\ UNCHANGED <<fuCount, sbCount, sbFlag, sbFrames>>
    /\ UNCHANGED <<fetchVars, timerVars, listVars, otherVars, mountOnlyVars, stateDemoVars, refVars>>

-----------------------------------------------------------------------------
(* StateBatchingExample of AdvancedUseStateDemo *)

\* the updates the calls of a handler queued on one state cell, in call order
QueueOf(calls, cell) ==
    LET own == SelectSeq(calls, LAMBDA c : c.cell = cell)
    IN  [i \in 1..Len(own) |-> own[i].update]

\* the state a render sees once these calls are processed
StateAfter(base, calls) ==
    [count |-> ApplyUpdates(base.count, QueueOf(calls, "count")),
     flag |-> ApplyUpdates(base.flag, QueueOf(calls, "flag"))]

\* faulty variant of BatchedRenders: a render after every setState call
UnbatchedRenders(base, calls) ==
    [k \in 1..Len(calls) |-> StateAfter(base, SubSeq(calls, 1, k))]

\* automatic batching: the calls of one event handler are processed together
\* and rendered once, after the handler returned
BatchedRenders(base, calls) == <<StateAfter(base, calls)>>

\* handleMultipleUpdates: setCount(c => c + 1); setFlag(f => !f); setCount(c => c + 1)
HandleMultipleUpdates ==
    LET calls == <<[cell |-> "count", update |-> Updater(1)],
                   [cell |-> "flag", update |-> Negate],
                   [cell |-> "count", update |-> Updater(1)]>>
        frames == BatchedRenders([count |-> sbCount, flag |-> sbFlag], calls)
    IN  /\ sbCount < 2 * MaxClicks
        /\ sbFrames' = frames
        /\ sbCount' = frames[Len(frames)].count
        /\ sbFlag' = frames[Len(frames)].flag
        /\ lastOp' = "HandleMultipleUpdates"
        /\ UNCHANGED <<fuCount, updateCount, lastUpdateTime>>
        /\ UNCHANGED <<fetchVars, timerVars, listVars, otherVars, mountOnlyVars, stateDemoVars, refVars>>

-----------------------------------------------------------------------------
(* PreviousValueExample of UseRefDemo *)

\* faulty variant of RenderPrevious: the ref is read after the effect wrote it
RenderPreviousLate(ref, c) == [previous |-> <<c>>, current |-> c]

\* const prevCount = prevCountRef.current, read while rendering: Previous
\* shows prevCount ?? 'N/A' (<<>>: N/A), Current shows count
RenderPrevious(ref, c) == [previous |-> ref, current |-> c]

\* first render, then the effect: prevCountRef.current = count
PreviousMount ==
    /\ ~pvMounted
    /\ pvMounted' = TRUE
    /\ pvShown' = RenderPrevious(prevCountRef, pvCount)
    /\ prevCountRef' = <<pvCount>>
    /\ UNCHANGED pvCount
    /\ lastOp' = "PreviousMount"
    /\ UNCHANGED <<fetchVars, timerVars, listVars, otherVars, mountOnlyVars, stateDemoVars, updateVars, refVsStateVars>>

\* setCount(v): nothing happens when v is the current count; otherwise the
\* view renders with the ref as the last effect left it, and then the effect
\* with dependency [count] stores the new count in the ref
PreviousSetCount(v) ==
    IF v = pvCount
    THEN UNCHANGED <<pvCount, prevCountRef, pvShown>>
    ELSE /\ pvCount' = v
         /\ pvShown' = RenderPrevious(prevCountRef, v)
         /\ prevCountRef' = <<v>>

\* button 'Increment': setCount(count + 1)
PreviousIncrement ==
    /\ pvMounted
    /\ pvCount < MaxClicks
    /\ PreviousSetCount(pvCount + 1)
    /\ UNCHANGED pvMounted
    /\ lastOp' = "PreviousIncrement"
    /\ UNCHANGED <<fetchVars, timerVars, listVars, otherVars, mountOnlyVars, stateDemoVars, updateVars, refVsStateVars>>

\* button 'Decrement': setCount(count - 1)
PreviousDecrement ==
    /\ pvMounted
    /\ pvCount > -MaxClicks
    /\ PreviousSetCount(pvCount - 1)
    /\ UNCHANGED pvMounted
    /\ lastOp' = "PreviousDecrement"
    /\ UNCHANGED <<fetchVars, timerVars, listVars, otherVars, mountOnlyVars, stateDemoVars, updateVars, refVsStateVars>>

\* button 'Reset': setCount(0)
PreviousReset ==
    /\ pvMounted
    /\ PreviousSetCount(0)
    /\ UNCHANGED pvMounted
    /\ lastOp' = "PreviousReset"
    /\ UNCHANGED <<fetchVars, timerVars, listVars, otherVars, mountOnlyVars, stateDemoVars, updateVars, refVsStateVars>>

-----------------------------------------------------------------------------
(* RefVsStateExample of UseRefDemo *)

\* State Count: {stateCount}, Ref Count: {refCount.current}, read while rendering
RenderRefVsState(st, ref) == [state |-> st, ref |-> ref]

\* faulty variant of IncrementRef: the handler also makes the view render
IncrementRefRenders ==
    /\ refCount < MaxClicks
    /\ refCount' = refCount + 1
    /\ rvShown' = RenderRefVsState(stateCount, refCount + 1)
    /\ renderCount' = renderCount + 1
    /\ UNCHANGED stateCount
    /\ lastOp' = "IncrementRef"
    /\ UNCHANGED <<fetchVars, timerVars, listVars, otherVars, mountOnlyVars, stateDemoVars, updateVars, previousVars>>

\* incrementRef: refCount.current = refCount.current + 1; no state is set, so
\* nothing renders
IncrementRef ==
    /\ refCount < MaxClicks
    /\ refCount' = refCount + 1
    /\ UNCHANGED <<stateCount, renderCount, rvShown>>
    /\ lastOp' = "IncrementRef"
    /\ UNCHANGED <<fetchVars, timerVars, listVars, otherVars, mountOnlyVars, stateDemoVars, updateVars, previousVars>>

\* incrementState: setStateCount(stateCount + 1); the view renders, and the
\* effect without dependencies counts the render
IncrementState ==
    /\ stateCount < MaxClicks
    /\ stateCount' = stateCount + 1
    /\ rvShown' = RenderRefVsState(stateCount + 1, refCount)
    /\ renderCount' = renderCount + 1
    /\ UNCHANGED refCount
    /\ lastOp' = "IncrementState"
    /\ UNCHANGED <<fetchVars, timerVars, listVars, otherVars, mountOnlyVars, stateDemoVars, updateVars, previousVars>>

-----------------------------------------------------------------------------
(* MountOnlyEffect of UseEffectDemo *)

\* new Date().toLocaleTimeString(): the text of the clock reading
TimeString(t) == <<t>>

\* faulty variant of MountOnlyMount: the mount effect also counts a click
MountOnlyMountCounts ==
    /\ ~moMounted
    /\ moMounted' = TRUE
    /\ mountTime' = TimeString(now)
    /\ moCount' = moCount + 1
    /\ lastOp' = "MountOnlyMount"
    /\ UNCHANGED <<fetchVars, timerVars, listVars, otherVars, stateDemoVars, updateVars, refVars>>

\* useEffect(() => { setMountTime(new Date().toLocaleTimeString()) }, [])
MountOnlyMount ==
    /\ ~moMounted
    /\ moMounted' = TRUE
    /\ mountTime' = TimeString(now)
    /\ UNCHANGED moCount
    /\ lastOp' = "MountOnlyMount"
    /\ UNCHANGED <<fetchVars, timerVars, listVars, otherVars, stateDemoVars, updateVars, refVars>>

\* button 'Increment': setCount(count + 1); the [] effect does not run again
MountOnlyIncrement ==
    /\ moMounted
    /\ moCount < MaxClicks
    /\ moCount' = moCount + 1
    /\ UNCHANGED <<moMounted, mountTime>>
    /\ lastOp' = "MountOnlyIncrement"
    /\ UNCHANGED <<fetchVars, timerVars, listVars, otherVars, stateDemoVars, updateVars, refVars>>

-----------------------------------------------------------------------------
(* Initial state: every component as its useState/useRef initialisers leave it *)

Init ==
    /\ fetchMounted = FALSE
    /\ user = NullUser
    /\ loading = FALSE
    /\ userId = 1
    /\ inflight = <<>>
    /\ showTimer = FALSE
    /\ timerSeconds = 0
    /\ timerInterval = 0
    /\ teMounted = TRUE
    /\ seconds = 0
    /\ isRunning = FALSE
    /\ shownRunning = FALSE
    /\ intervalRef = 0
    /\ liveIntervals = {}
    /\ nextIntervalId = 1
    /\ now = ClockStart
    /\ items = InitialItems
    /\ todos = InitialTodos
    /\ newTodo = <<>>
    /\ ptodos = <<>>
    /\ pinput = <<>>
    /\ count = 0
    /\ nInc = 0
    /\ nDec = 0
    /\ sawOther = FALSE
    /\ cuser = InitialUser
    /\ ctxState = InitialCtxState
    /\ lastThemeClicked = "none"
    /\ moMounted = FALSE
    /\ moCount = 0
    /\ mountTime = <<>>
    /\ text = <<>>
    /\ isOn = FALSE
    /\ stateDemoView = RenderStateDemo(<<>>, FALSE)
    /\ nToggles = 0
    /\ fuCount = 0
    /\ updateCount = 0
    /\ lastUpdateTime = "null"
    /\ sbCount = 0
    /\ sbFlag = FALSE
    /\ sbFrames = <<[count |-> 0, flag |-> FALSE]>>
    /\ pvMounted = FALSE
    /\ pvCount = 0
    /\ prevCountRef = <<>>
    /\ pvShown = [previous |-> <<>>, current |-> 0]
    /\ stateCount = 0
    /\ refCount = 0
    /\ renderCount = 1
    /\ rvShown = [state |-> 0, ref |-> 0]
    /\ issued = 0
    /\ changes = 0
    /\ sawFailure = FALSE
    /\ lastOp = "init"

-----------------------------------------------------------------------------
(* DataFetchingEffect on its own *)

FetchChange == \E v \in UserIdInputs : ChangeUserId(v)
FetchThenStep == \E i \in 1..MaxInFlight + 1 : FetchThen(i)
FetchCatchStep == \E i \in 1..MaxInFlight + 1 : FetchCatch(i)

NextFetch == FetchMount \/ FetchChange \/ FetchThenStep \/ FetchCatchStep

SpecFetch == Init /\ [][NextFetch]_vars

\* the runtime runs mount effects, and every fetch promise settles
SpecFetchFair == SpecFetch /\ WF_vars(FetchMount) /\ WF_vars(FetchSettle)

-----------------------------------------------------------------------------
(* The two timer views *)

NextTimers ==
    \/ ShowTimer \/ HideTimer \/ TimerTick
    \/ StartTimer \/ StopTimer \/ ResetTimer \/ TimerExampleTick
    \/ UnmountTimerExample \/ MountTimerExample

SpecTimers == Init /\ [][NextTimers]_vars

\* TimerExample when the events of one task are handled before the render
NextTimerBatch ==
    \/ StartTimer \/ StopTimer \/ ResetTimer \/ TimerExampleTick
    \/ StartTimerBeforeRender \/ RenderTimerExample
    \/ UnmountTimerExample \/ MountTimerExample

SpecTimerBatch == Init /\ [][NextTimerBatch]_vars

-----------------------------------------------------------------------------
(* The list demos *)

AllIds == 1..3 \cup ClockStart..(ClockStart + MaxClockTicks)

KeyAdd == \E h \in Hues : AddItem(h)
KeyRemove == \E id \in AllIds : RemoveItem(id)
TodoType == \E s \in TodoInputs : TypeNewTodo(s)
TodoDelete == \E id \in AllIds : DeleteTodo(id)
PatternsTypeStep == \E s \in TodoInputs : PatternsType(s)
PatternsDelete == \E id \in AllIds : PatternsDeleteTodo(id)
TodoToggle == \E id \in AllIds : ToggleTodo(id)
PatternsToggle == \E id \in AllIds : PatternsToggleTodo(id)

NextLists ==
    \/ ClockAdvance
    \/ KeyAdd \/ KeyRemove
    \/ TodoType \/ AddTodo \/ TodoDelete
    \/ PatternsTypeStep \/ PatternsAddTodo \/ PatternsDelete

SpecLists == Init /\ [][NextLists]_vars

\* KeyDemo with its Add and Shuffle buttons (Remove never reorders and is
\* explored in SpecLists)
KeyShuffle == \E run \in ComparatorRuns(Len(items)) : ShuffleItems(run)

NextKeyDemo == ClockAdvance \/ KeyAdd \/ KeyShuffle

SpecKeyDemo == Init /\ [][NextKeyDemo]_vars

\* the two todo lists with their checkboxes
NextTodoLists ==
    \/ ClockAdvance
    \/ TodoType \/ AddTodo \/ TodoDelete \/ TodoToggle
    \/ PatternsTypeStep \/ PatternsAddTodo \/ PatternsDelete \/ PatternsToggle

SpecTodoLists == Init /\ [][NextTodoLists]_vars

-----------------------------------------------------------------------------
(* The counter of StateDemo *)

NextCounter == IncrementCount \/ DecrementCount \/ ResetCount \/ IncrementByTen

SpecCounter == Init /\ [][NextCounter]_vars

-----------------------------------------------------------------------------
(* ComplexObjectStateExample *)

NameEdit == \E v \in Inputs : UpdateName(v)
CityEdit == \E v \in Inputs : UpdateCity(v)

NextObject == NameEdit \/ CityEdit \/ ToggleNotifications

SpecObject == Init /\ [][NextObject]_vars

-----------------------------------------------------------------------------
(* UseContextDemo *)

ThemeClick == \E t \in Themes : SetTheme(t)
ContextNameEdit == \E v \in Inputs : ChangeContextUserName(v)

NextContext ==
    ThemeClick \/ ContextNameEdit \/ ChangeContextNotifications \/ PropDrillingIncrement

SpecContext == Init /\ [][NextContext]_vars

-----------------------------------------------------------------------------
(* The views of UseEffectDemo whose state is written outside a user event *)

NextEffects ==
    \/ NextFetch
    \/ ShowTimer \/ HideTimer \/ TimerTick
    \/ MountOnlyMount \/ MountOnlyIncrement

SpecEffects == Init /\ [][NextEffects]_vars

-----------------------------------------------------------------------------
(* Text input and toggle switch of StateDemo *)

TextEdit == \E v \in Inputs : HandleTextChange(v)

NextStateDemo == TextEdit \/ ToggleSwitch

SpecStateDemo == Init /\ [][NextStateDemo]_vars

-----------------------------------------------------------------------------
(* The demos of queued state updates *)

PerformanceUpdate == \E t \in Durations : SimulateUpdate(t)
PerformanceMassUpdate == \E t \in Durations : SimulateMassUpdate(t)

NextUpdates ==
    \/ IncrementBad \/ IncrementGood \/ FunctionalReset
    \/ PerformanceUpdate \/ PerformanceMassUpdate
    \/ HandleMultipleUpdates

SpecUpdates == Init /\ [][NextUpdates]_vars

-----------------------------------------------------------------------------
(* The ref examples of UseRefDemo *)

NextRefs ==
    \/ PreviousMount \/ PreviousIncrement \/ PreviousDecrement \/ PreviousReset
    \/ IncrementRef \/ IncrementState

SpecRefs == Init /\ [][NextRefs]_vars

-----------------------------------------------------------------------------
(* Claims about DataFetchingEffect *)

\* C1 (as claimed): a fetch that fails, or that is answered with a body that
\* is no user record, leaves the user value unchanged.
C1_InvalidOrFailedKeepsUser ==
    [][\A i \in 1..Len(inflight) :
          \/ FetchCatch(i)
          \/ (FetchThen(i) /\ ServerBody(inflight[i]).kind # "user")
          => user' = user]_vars

\* C2: loading is never stuck: whenever loading is true (a fetch was
\* started), it eventually is false again.
C2_LoadingEventuallyClears == loading ~> ~loading

C2_Witness == lastOp = "FetchCatch" /\ ~loading /\ inflight = <<>>

\* C3 (as claimed): after a failed fetch the loading indicator is still set.
C3_LoadingStuckAfterFailure == lastOp = "FetchCatch" => loading

\* C3 (amended): the failure handler clears the loading indicator and shows
\* no error: right after a failed fetch, loading is false and the view shows
\* what the user value held before gives (card or nothing), never "Loading...".
C3_FailureClearsLoading ==
    lastOp = "FetchCatch" => (~loading /\ Displayed # "Loading...")

C3_Witness == lastOp = "FetchCatch" /\ ~loading /\ user = NullUser

-----------------------------------------------------------------------------
(* Claims about the list demos *)

DistinctIds(s) == \A i, j \in 1..Len(s) : i # j => s[i].id # s[j].id

\* C4 (as claimed): in every reachable state the identifiers of the items of
\* each list are pairwise distinct.
C4_IdsPairwiseDistinct ==
    DistinctIds(items) /\ DistinctIds(todos) /\ DistinctIds(ptodos)

\* new is old without its k-th record, for one k holding a record with this id
RemovedOne(old, new, id) ==
    \E k \in 1..Len(old) : old[k].id = id /\ new = RemoveAt(old, k)

\* C5 (as claimed): removing by identifier takes exactly one record, the one
\* with that id, out of the list; all others stay, in the same order.
C5_RemoveTakesExactlyOne ==
    [][\A id \in AllIds :
          /\ RemoveItem(id) => RemovedOne(items, items', id)
          /\ DeleteTodo(id) => RemovedOne(todos, todos', id)
          /\ PatternsDeleteTodo(id) => RemovedOne(ptodos, ptodos', id)]_vars

\* C12 (as claimed): toggleTodo(id) inverts the completion flag of the item
\* with that id and leaves its id and text, every other item, and the length
\* and order of the list unchanged.
C12_ToggleFlipsExactlyOne ==
    [][\A id \in AllIds :
          /\ ToggleTodo(id) =>
                \E k \in 1..Len(todos) :
                    /\ todos[k].id = id
                    /\ todos' = [todos EXCEPT ![k].completed = ~todos[k].completed]
          /\ PatternsToggleTodo(id) =>
                \E k \in 1..Len(ptodos) :
                    /\ ptodos[k].id = id
                    /\ ptodos' = [ptodos EXCEPT ![k].done = ~ptodos[k].done]]_vars

\* how often the record r occurs in s
Occurrences(s, r) == Cardinality({i \in 1..Len(s) : s[i] = r})

\* new holds the records of old, each as often as old does, in some order
IsPermutation(old, new) ==
    /\ Len(new) = Len(old)
    /\ \A i \in 1..Len(old) : Occurrences(new, old[i]) = Occurrences(old, old[i])

\* C25: shuffleItems changes only the order of items: the list after a shuffle
\* is a permutation of the list before it, with the same length and the same
\* (id, text, color) records.
C25_ShuffleIsPermutation ==
    [][lastOp' = "ShuffleItems" => IsPermutation(items, items')]_vars

\* a shuffle has just put an added item first and Item 1 last
C25_Witness ==
    /\ lastOp = "ShuffleItems"
    /\ Len(items) = 4
    /\ items[1].id >= ClockStart
    /\ items[4].id = 1

\* new is old with one record added at the end
Appended(old, new) ==
    Len(new) = Len(old) + 1 /\ SubSeq(new, 1, Len(old)) = old

IsBlank(s) == \A i \in 1..Len(s) : s[i] = " "

\* C6 (as claimed): every Add action, for any content of the input field,
\* makes the list one longer and leaves the existing records unchanged.
C6_EveryAddAppends ==
    [][/\ KeyAdd => Appended(items, items')
       /\ AddTodo => Appended(todos, todos')
       /\ PatternsAddTodo => Appended(ptodos, ptodos')]_vars

\* C6 (amended): addItem always, and addTodo when the input is not blank,
\* makes the list one longer, the new record last and the others unchanged;
\* addTodo with an empty or whitespace-only input leaves the list unchanged.
C6_AddAppendsUnlessBlank ==
    [][/\ KeyAdd => Appended(items, items')
       /\ AddTodo => IF IsBlank(newTodo) THEN todos' = todos
                     ELSE Appended(todos, todos')
       /\ PatternsAddTodo => IF IsBlank(pinput) THEN ptodos' = ptodos
                             ELSE Appended(ptodos, ptodos')]_vars

C6_Witness ==
    /\ lastOp = "AddTodo"
    /\ Len(todos) = Len(InitialTodos) + 1
    /\ SubSeq(todos, 1, Len(InitialTodos)) = InitialTodos
    /\ newTodo = <<>>

-----------------------------------------------------------------------------
(* Claims about the counter and the object state *)

\* C7: from 0, after N '+1' and M '-1' actions in any order, with no Reset
\* and no '+10' among them, the displayed count is N - M.
C7_CountIsIncsMinusDecs == ~sawOther => count = nInc - nDec

C7_Witness == ~sawOther /\ nInc = 2 /\ nDec = 3 /\ count = -1

\* all fields of the user object but the named one are as before the step
OthersUnchanged(field) ==
    /\ field # "name" => cuser'.name = cuser.name
    /\ cuser'.email = cuser.email
    /\ cuser'.address.street = cuser.address.street
    /\ field # "city" => cuser'.address.city = cuser.address.city
    /\ cuser'.address.zipCode = cuser.address.zipCode
    /\ cuser'.preferences.theme = cuser.preferences.theme
    /\ field # "notifications" =>
           cuser'.preferences.notifications = cuser.preferences.notifications

\* C9: updateName, updateCity and toggleNotifications each set their own
\* field and leave every other field of the user object unchanged.
C9_UpdatesTouchOwnFieldOnly ==
    [][/\ \A v \in Inputs : UpdateName(v) => cuser'.name = v /\ OthersUnchanged("name")
       /\ \A v \in Inputs :
              UpdateCity(v) => cuser'.address.city = v /\ OthersUnchanged("city")
       /\ ToggleNotifications =>
              /\ cuser'.preferences.notifications = ~cuser.preferences.notifications
              /\ OthersUnchanged("notifications")]_vars

C9_Witness ==
    /\ lastOp = "UpdateCity"
    /\ cuser.address.city = <<"a">>
    /\ cuser.name = <<"a", " ">>
    /\ ~cuser.preferences.notifications
    /\ cuser.address.street = InitialUser.address.street
    /\ cuser.email = InitialUser.email

-----------------------------------------------------------------------------
(* Claims about the context demo *)

\* the cells of all views but this one are as before the step
OtherViewsUnchanged(view) ==
    \A cell \in Cells \ CellsOf(view) : ctxState'[cell] = ctxState[cell]

\* C10: no action of a view changes state owned by another view: the theme
\* buttons change only ThemeExample's state, the edits in
\* MultiContextConsumer only MultipleContextsExample's, the prop-drilling
\* button only PropDrillingProblem's; and no step changes the theme or the
\* user name ChildWithContext shows.
C10_NoStateSharedAcrossViews ==
    [][/\ ThemeClick => OtherViewsUnchanged("ThemeExample")
       /\ (ContextNameEdit \/ ChangeContextNotifications) =>
              OtherViewsUnchanged("MultipleContextsExample")
       /\ PropDrillingIncrement => OtherViewsUnchanged("PropDrillingProblem")
       /\ ChildWithContextShows' = ChildWithContextShows]_vars

C10_Witness ==
    /\ lastOp = "SetTheme"
    /\ ctxState["ThemeExample_theme"] = "blue"
    /\ ctxState["MultipleContextsExample_user"].name = <<"a">>
    /\ ~ctxState["MultipleContextsExample_settings"].notifications
    /\ ChildWithContextShows = [theme |-> "light", user |-> <<"John Doe">>]

-----------------------------------------------------------------------------
(* Claims about the timers *)

C21_AtMostOneLiveInterval == Cardinality(LiveOf("TimerExample")) <= 1

-----------------------------------------------------------------------------
(* Claims about who writes the state of a view *)

\* the handlers a user interaction runs in DataFetchingEffect, CleanupEffect
\* and MountOnlyEffect
UserEvents == {"ChangeUserId", "ShowTimer", "HideTimer", "MountOnlyIncrement"}

FetchCells == <<user, loading, userId>>
TimerCells == <<showTimer, timerSeconds>>
MountOnlyCells == <<moCount, mountTime>>

\* C11 as stated: a step that is not a user interaction (a timer tick, a
\* network response, a mount effect) changes no state variable of any view.
C11_OnlyUserEventsChangeState ==
    [][lastOp' \notin UserEvents
          => UNCHANGED <<FetchCells, TimerCells, MountOnlyCells>>]_vars

\* C11, amended: the state of a view is written only by steps of that view,
\* and a step that is not a user interaction writes only the cells its
\* callback sets: a tick only seconds of Timer, a network response and the
\* mount effect of DataFetchingEffect only user and loading, the mount
\* effect of MountOnlyEffect only mountTime.
C11_StateChangesWithinOwnView ==
    [][/\ lastOp' \in {"FetchMount", "ChangeUserId", "FetchThen", "FetchCatch"}
            => UNCHANGED <<TimerCells, MountOnlyCells>>
       /\ lastOp' \in {"ShowTimer", "HideTimer", "TimerTick"}
            => UNCHANGED <<FetchCells, MountOnlyCells>>
       /\ lastOp' \in {"MountOnlyMount", "MountOnlyIncrement"}
            => UNCHANGED <<FetchCells, TimerCells>>
       /\ lastOp' = "TimerTick" => UNCHANGED showTimer
       /\ lastOp' \in {"FetchMount", "FetchThen", "FetchCatch"} => UNCHANGED userId
       /\ lastOp' = "MountOnlyMount" => UNCHANGED moCount]_vars

\* a tick has just changed seconds, after a response and a mount effect wrote
\* user and mountTime
C11_Witness ==
    /\ lastOp = "TimerTick"
    /\ timerSeconds > 0
    /\ user # NullUser
    /\ mountTime # <<>>

-----------------------------------------------------------------------------
(* Claims about the text input and the toggle switch of StateDemo *)

\* C13: every activation of the switch inverts the displayed boolean, so the
\* switch shows ON after an odd number of activations and OFF (its original
\* value) after an even number: two consecutive activations cancel.
C13_TwoTogglesCancel ==
    /\ isOn = (nToggles % 2 = 1)
    /\ stateDemoView.switch = IF nToggles % 2 = 1 THEN "ON" ELSE "OFF"

\* the switch was activated twice in a row and is back to OFF
C13_Witness == nToggles = 2 /\ lastOp = "ToggleSwitch" /\ ~isOn

\* C14: the displayed character count is the exact length of the current
\* text, and 0 when the text is empty.
C14_CharCountIsLength ==
    /\ stateDemoView.charCount = Len(text)
    /\ text = <<>> => stateDemoView.charCount = 0

\* a text with a blank at its end is shown with its full length
C14_Witness ==
    /\ lastOp = "HandleTextChange"
    /\ text = <<"a", " ">>
    /\ stateDemoView.charCount = 2

-----------------------------------------------------------------------------
(* Claims about the requests of DataFetchingEffect *)

\* C15: the fetch is never retried: one request is issued at mount and one
\* per change of userId, so a step issues a request only when it is the mount
\* or changes userId; in particular a failed request is followed by no
\* request until userId changes.
C15_OneRequestPerUserIdChange ==
    [][/\ issued' = (IF fetchMounted' THEN 1 + changes' ELSE 0)
       /\ changes' # changes <=> userId' # userId
       /\ issued' # issued => lastOp' = "FetchMount" \/ userId' # userId
       /\ lastOp' = "FetchCatch" => issued' = issued]_vars

\* a request has failed, nothing is in flight, and only the requests of the
\* mount and of the one change of userId were issued
C15_Witness ==
    /\ lastOp = "FetchCatch"
    /\ sawFailure
    /\ inflight = <<>>
    /\ changes = 1
    /\ issued = 2

-----------------------------------------------------------------------------
(* Claims about queued state updates *)

\* C16: k updates setX(prev => prev + 1) made in one handler raise the value
\* by exactly k: incrementGood raises count by 3 and simulateMassUpdate
\* raises updateCount by 100.
C16_FunctionalUpdatesAccumulate ==
    [][/\ \A k \in 0..MaxQueue :
             ApplyUpdates(fuCount, Repeat(Updater(1), k)) = fuCount + k
       /\ lastOp' = "IncrementGood" => fuCount' = fuCount + 3
       /\ lastOp' = "SimulateMassUpdate" => updateCount' = updateCount + 100]_vars

\* simulateMassUpdate has just added 100, after incrementGood added 3
C16_Witness ==
    /\ lastOp = "SimulateMassUpdate"
    /\ updateCount = 100
    /\ fuCount = 3

\* C17: one click of incrementBad, three calls setCount(count + 1), raises
\* count by exactly 1.
C17_StaleValueCountsOnce ==
    [][lastOp' = "IncrementBad" => fuCount' = fuCount + 1]_vars

\* incrementBad has just added 1 to the 3 of an incrementGood
C17_Witness ==
    /\ lastOp = "IncrementBad"
    /\ fuCount = 4

\* C18: one click of 'Update Multiple States' is one batch: the step renders
\* exactly once, with count raised by 2 and flag inverted, so no render shows
\* count raised by 1 or a flag inverted without the count.
C18_OneRenderPerClick ==
    [][lastOp' = "HandleMultipleUpdates" =>
          /\ sbFrames' = <<[count |-> sbCount + 2, flag |-> ~sbFlag]>>
          /\ sbCount' = sbCount + 2
          /\ sbFlag' = ~sbFlag]_vars

\* the second click has just rendered count 4 with the flag back to false
C18_Witness ==
    /\ lastOp = "HandleMultipleUpdates"
    /\ sbCount = 4
    /\ ~sbFlag
    /\ Len(sbFrames) = 1

\* C19 (as claimed): whatever the order in which the responses of overlapping
\* requests arrive, once no request is in flight (and none has failed) the
\* displayed user is the record fetched for the current userId.
C19_SettledUserIsCurrent ==
    (fetchMounted /\ inflight = <<>> /\ ~sawFailure) => user = ServerBody(userId)

\* C20 (as claimed): loading is true in every state in which at least one
\* request is in flight.
C20_LoadingWhileInFlight == inflight # <<>> => loading

-----------------------------------------------------------------------------
(* Claims about the ref examples *)

\* C23: the first render of PreviousValueExample shows N/A as Previous, and
\* after every Increment, Decrement or Reset that changes count the rendered
\* Previous is the count that was rendered just before that action.
C23_PreviousIsLastRendered ==
    [][/\ lastOp' = "PreviousMount" => pvShown'.previous = <<>>
       /\ (/\ lastOp' \in {"PreviousIncrement", "PreviousDecrement", "PreviousReset"}
           /\ pvCount' # pvCount)
            => /\ pvShown'.previous = <<pvShown.current>>
               /\ pvShown'.current = pvCount']_vars

\* Reset has just rendered 0 with the 2 shown before it as Previous
C23_Witness ==
    /\ lastOp = "PreviousReset"
    /\ pvShown = [previous |-> <<2>>, current |-> 0]

\* C24: 'Increment Ref' raises refCount.current by 1 and renders nothing, so
\* the displayed Ref Count stays at the value of the last render; 'Increment
\* State' raises the displayed State Count by 1, leaves refCount.current
\* unchanged, and its render shows the Ref Count caught up with it.
C24_RefChangesWithoutRender ==
    [][/\ lastOp' = "IncrementRef"
            => /\ refCount' = refCount + 1
               /\ rvShown' = rvShown
               /\ stateCount' = stateCount
       /\ lastOp' = "IncrementState"
            => /\ rvShown'.state = rvShown.state + 1
               /\ refCount' = refCount
               /\ rvShown'.ref = refCount]_vars

\* the ref was raised to 2 while the view still shows the 1 of the last render
C24_Witness ==
    /\ lastOp = "IncrementRef"
    /\ refCount = 2
    /\ rvShown.ref = 1

-----------------------------------------------------------------------------
(* Claims about the theme switcher *)

\* C26: in every reachable state ThemeControls and ThemedContent display the
\* same theme, it is one of light, dark and blue, and it is the theme of the
\* button clicked last (light while none was clicked), whatever the other
\* views of UseContextDemo did in between.
C26_ThemeSharedByNestedViews ==
    /\ ThemeControlsShows = ThemedContentShows
    /\ ThemeControlsShows \in Themes
    /\ ThemeControlsShows = IF lastThemeClicked = "none" THEN "light" ELSE lastThemeClicked

\* Blue was clicked last, then another view changed its own state: both
\* nested views show blue while the theme cell of UseContextDemo is still light
C26_Witness ==
    /\ lastThemeClicked = "blue"
    /\ lastOp = "ChangeContextNotifications"
    /\ ThemeControlsShows = "blue"
    /\ ThemedContentShows = "blue"
    /\ ctxState["UseContextDemo_theme"] = "light"

====
